---- MODULE Spec2Model ----
(***************************************************************************)
(* Quanta compiler (src/python implementation/index.py): lexer, parser and *)
(* codeGenerator, composed by compiler().  Python strings are modelled as  *)
(* sequences of one-character strings, Python values as tagged records.    *)
(***************************************************************************)
EXTENDS Integers, Sequences, FiniteSets, TLC

\* Longest source text handed to lexer, longest free token list handed to parser.
MaxInput == 4
MaxTokens == 3

VARIABLES stage, input, cursor, scanned, tokens, stack, ast, code, result,
          dropped, eofInBlock, given

vars == <<stage, input, cursor, scanned, tokens, stack, ast, code, result,
          dropped, eofInBlock, given>>

(***************************************************************************)
(* Python values: str, int and None                                        *)
(***************************************************************************)
StrV(s) == [py |-> "str", s |-> s, n |-> 0]

IntV(n) == [py |-> "int", s |-> <<>>, n |-> n]

NoneV == [py |-> "None", s |-> <<>>, n |-> 0]

DigitChar(d) ==
  CASE d = 0 -> "0" [] d = 1 -> "1" [] d = 2 -> "2" [] d = 3 -> "3" [] d = 4 -> "4"
    [] d = 5 -> "5" [] d = 6 -> "6" [] d = 7 -> "7" [] d = 8 -> "8" [] d = 9 -> "9"

DigitVal(c) ==
  CASE c = "0" -> 0 [] c = "1" -> 1 [] c = "2" -> 2 [] c = "3" -> 3 [] c = "4" -> 4
    [] c = "5" -> 5 [] c = "6" -> 6 [] c = "7" -> 7 [] c = "8" -> 8 [] c = "9" -> 9

RECURSIVE IntToStr(_)
\* str(n) for a non-negative int
IntToStr(n) == IF n < 10 THEN <<DigitChar(n)>> ELSE IntToStr(n \div 10) \o <<DigitChar(n % 10)>>

RECURSIVE StrToInt(_)
\* int(number) for a non-empty run of decimal digits
StrToInt(s) ==
  IF Len(s) = 1 THEN DigitVal(s[1])
  ELSE 10 * StrToInt(SubSeq(s, 1, Len(s) - 1)) + DigitVal(s[Len(s)])

\* str(v), as used by f-strings and by parse_expression
PyStr(v) ==
  CASE v.py = "int" -> IntToStr(v.n)
    [] v.py = "str" -> v.s
    [] v.py = "None" -> <<"N", "o", "n", "e">>

(***************************************************************************)
(* Character classes of the lexer                                          *)
(***************************************************************************)
Letters == {"a", "d", "e", "f", "i", "l", "n", "p", "r", "s", "t", "w", "x"}

Digits == {"0", "1", "2", "3", "4", "5", "6", "7", "8", "9"}

OperatorChars == {"+", "-", "*", "/", "=", "<", ">", "&", "|"}

IsSpace(c) == c \in {" ", "\t", "\n"}

IsAlpha(c) == c \in Letters

IsDigit(c) == c \in Digits

IsAlnum_OrSpace(c) == IsAlpha(c) \/ IsDigit(c) \/ IsSpace(c)

IsAlnum(c) == IsAlpha(c) \/ IsDigit(c)

Keywords ==
  { <<"l", "e", "t">>, <<"w", "r", "i", "t", "e">>, <<"i", "f">>, <<"e", "l", "i", "f">>,
    <<"e", "l", "s", "e">>, <<"e", "n", "d">>, <<"r", "e", "p", "e", "a", "t">> }

Token(type, value) == [type |-> type, value |-> value]

Kw(w) == Token("keyword", StrV(w))

LET_ == Kw(<<"l", "e", "t">>)

WRITE_ == Kw(<<"w", "r", "i", "t", "e">>)

IF_ == Kw(<<"i", "f">>)

ELIF_ == Kw(<<"e", "l", "i", "f">>)

ELSE_ == Kw(<<"e", "l", "s", "e">>)

END_ == Kw(<<"e", "n", "d">>)

REPEAT_ == Kw(<<"r", "e", "p", "e", "a", "t">>)

RECURSIVE ScanWord(_, _)
\* the cursor after the inner loop of lines 32-34
ScanWord(s, c) == IF c < Len(s) /\ IsAlnum(s[c + 1]) THEN ScanWord(s, c + 1) ELSE c

RECURSIVE ScanNumber(_, _)
\* the cursor after the inner loop of lines 48-50
ScanNumber(s, c) == IF c < Len(s) /\ IsDigit(s[c + 1]) THEN ScanNumber(s, c + 1) ELSE c

RECURSIVE ScanString(_, _)
\* the cursor after the inner loop of lines 59-61
ScanString(s, c) == IF c < Len(s) /\ s[c + 1] # "\"" THEN ScanString(s, c + 1) ELSE c

\* input[a:b] with 0-based half-open bounds
Slice(s, a, b) == SubSeq(s, a + 1, b)

InvalidCharacter_OneBased(char, pos) == [kind |-> "ValueError", char |-> char, pos |-> pos + 1]

\* ValueError(f"Invalid character '{char}' at position {cursor}")
InvalidCharacter(char, pos) == [kind |-> "ValueError", char |-> char, pos |-> pos]

Running == [kind |-> "running"]

IndexError == [kind |-> "IndexError"]

Returned == [kind |-> "returned"]

NoAst == [type |-> "NoAst"]

Null == [type |-> "None"]

(***************************************************************************)
(* Inputs                                                                  *)
(***************************************************************************)
\* Source characters: blank, two letters (spelling the keyword if), a digit,
\* the quote, an operator and a character the lexer does not know.
Alphabet == {" ", "i", "f", "1", "\"", "=", "@"}

RECURSIVE SeqsUpTo(_, _)
SeqsUpTo(S, n) ==
  IF n = 0 THEN {<<>>}
  ELSE LET shorter == SeqsUpTo(S, n - 1)
       IN shorter \cup {Append(q, x) : q \in {r \in shorter : Len(r) = n - 1}, x \in S}

\* let x = 5 @
LetWithStrayCharacter == <<"l", "e", "t", " ", "x", " ", "=", " ", "5", " ", "@">>

SourceTexts == SeqsUpTo(Alphabet, MaxInput) \cup {LetWithStrayCharacter}

IDENT_x == Token("identifier", StrV(<<"x">>))

NUM_1 == Token("number", IntV(1))

OP_eq == Token("operator", StrV(<<"=">>))

STR_end == Token("string", StrV(<<"e", "n", "d">>))

TokenAlphabet ==
  {LET_, WRITE_, IF_, ELIF_, ELSE_, END_, REPEAT_, IDENT_x, NUM_1, OP_eq, STR_end}

(***************************************************************************)
(* lexer                                                                   *)
(***************************************************************************)
Char == input[cursor + 1]

InLexer == stage = "lexer" /\ cursor < Len(input)

LexerKeeps == UNCHANGED <<input, tokens, stack, ast, code, dropped, eofInBlock, given>>

\* lines 24-26
LexWhitespace ==
  /\ InLexer /\ IsSpace(Char)
  /\ cursor' = cursor + 1
  /\ UNCHANGED <<stage, scanned, result>>
  /\ LexerKeeps

\* lines 29-42
LexWord ==
  /\ InLexer /\ ~IsSpace(Char) /\ IsAlpha(Char)
  /\ LET stop == ScanWord(input, cursor)
         word == Slice(input, cursor, stop)
     IN /\ cursor' = stop
        /\ scanned' = Append(scanned,
                        IF word \in Keywords THEN Token("keyword", StrV(word))
                        ELSE Token("identifier", StrV(word)))
  /\ UNCHANGED <<stage, result>>
  /\ LexerKeeps

\* lines 45-53
LexNumber ==
  /\ InLexer /\ ~IsSpace(Char) /\ ~IsAlpha(Char) /\ IsDigit(Char)
  /\ LET stop == ScanNumber(input, cursor)
         number == Slice(input, cursor, stop)
     IN /\ cursor' = stop
        /\ scanned' = Append(scanned, Token("number", IntV(StrToInt(number))))
  /\ UNCHANGED <<stage, result>>
  /\ LexerKeeps

\* lines 56-64: the closing quote is skipped whether or not there is one
LexString ==
  /\ InLexer /\ ~IsSpace(Char) /\ ~IsAlpha(Char) /\ ~IsDigit(Char) /\ Char = "\""
  /\ LET stop == ScanString(input, cursor + 1)
         string == Slice(input, cursor + 1, stop)
     IN /\ cursor' = stop + 1
        /\ scanned' = Append(scanned, Token("string", StrV(string)))
  /\ UNCHANGED <<stage, result>>
  /\ LexerKeeps

\* lines 67-70
LexOperator ==
  /\ InLexer /\ ~IsSpace(Char) /\ ~IsAlpha(Char) /\ ~IsDigit(Char) /\ Char # "\""
  /\ Char \in OperatorChars
  /\ cursor' = cursor + 1
  /\ scanned' = Append(scanned, Token("operator", StrV(<<Char>>)))
  /\ UNCHANGED <<stage, result>>
  /\ LexerKeeps

\* line 73: the raise leaves lexer and compiler; nothing is returned
LexInvalid ==
  /\ InLexer /\ ~IsSpace(Char) /\ ~IsAlpha(Char) /\ ~IsDigit(Char) /\ Char # "\""
  /\ Char \notin OperatorChars
  /\ result' = InvalidCharacter(Char, cursor)
  /\ stage' = "done"
  /\ UNCHANGED <<cursor, scanned>>
  /\ LexerKeeps

(***************************************************************************)
(* parser: the recursive descent as a stack of activation records, one     *)
(* action per loop iteration of parse_block and parse_expression           *)
(***************************************************************************)
Declaration(name, value) == [type |-> "Declaration", name |-> name, value |-> value]

Print_(expression) == [type |-> "Print", expression |-> expression]

If(test, consequent, alternate) ==
  [type |-> "If", test |-> test, consequent |-> consequent, alternate |-> alternate]

Block(body) == [type |-> "Block", body |-> body]

Repeat(count, body) == [type |-> "Repeat", count |-> count, body |-> body]

Program(body) == [type |-> "Program", body |-> body]

\* activation records
ParserFrame == [fn |-> "parser"]

BlockFrame == [fn |-> "parse_block", at |-> "loop", body |-> <<>>, name |-> NoneV]

IfFrame == [fn |-> "parse_if", at |-> "test", test |-> <<>>, consequent |-> <<>>]

RepeatFrame == [fn |-> "parse_repeat", at |-> "count", count |-> <<>>]

ExpressionFrame == [fn |-> "parse_expression", expression |-> <<>>]

\* lines 20, 75 and 247-248: the list is returned and handed to parser
LexReturn ==
  /\ stage = "lexer" /\ cursor >= Len(input)
  /\ tokens' = scanned
  /\ given' = scanned
  /\ stack' = <<[fn |-> "parser"], BlockFrame>>
  /\ stage' = "parser"
  /\ UNCHANGED <<input, cursor, scanned, ast, code, result, dropped, eofInBlock>>

Top == stack[Len(stack)]

Callers == SubSeq(stack, 1, Len(stack) - 1)

RECURSIVE LStrip(_)
LStrip(s) == IF s # <<>> /\ IsSpace(s[1]) THEN LStrip(Tail(s)) ELSE s

RECURSIVE RStrip(_)
RStrip(s) == IF s # <<>> /\ IsSpace(s[Len(s)]) THEN RStrip(SubSeq(s, 1, Len(s) - 1)) ELSE s

\* str.strip()
Strip(s) == LStrip(RStrip(s))

\* lines 100-104: what one token adds to the expression
Piece(token) ==
  IF token.type = "string" THEN <<"\"">> \o PyStr(token.value) \o <<"\"">> \o <<" ">>
  ELSE PyStr(token.value) \o <<" ">>

Continuation_ElifAsElse(toks) ==
  IF toks # <<>> /\ toks[1].value \in {StrV(<<"e", "l", "i", "f">>), StrV(<<"e", "l", "s", "e">>)}
  THEN "else"
  ELSE "none"

\* lines 159 and 162: how parse_if goes on after its consequent
Continuation(toks) ==
  IF toks # <<>> /\ toks[1].value = StrV(<<"e", "l", "i", "f">>) THEN "elif"
  ELSE IF toks # <<>> /\ toks[1].value = StrV(<<"e", "l", "s", "e">>) THEN "else"
  ELSE "none"

RECURSIVE Return(_, _, _)
\* The callee has left the stack `callers` and hands `val` to the record on
\* top of it, which runs on to its next call or returns in turn.
Return(callers, toks, val) ==
  LET f == callers[Len(callers)]
      below == SubSeq(callers, 1, Len(callers) - 1)
      go(frames, rest) == [stack |-> below \o frames, tokens |-> rest, ast |-> NoAst]
  IN CASE f.fn = "parser" ->
            \* lines 180-185
            [stack |-> <<>>, tokens |-> toks, ast |-> Program(val)]
       [] f.fn = "parse_block" /\ f.at = "let" ->
            \* lines 125-126
            go(<<[f EXCEPT !.at = "loop", !.name = NoneV,
                           !.body = Append(f.body, Declaration(f.name, StrV(val)))]>>, toks)
       [] f.fn = "parse_block" /\ f.at = "write" ->
            \* lines 129-132
            go(<<[f EXCEPT !.at = "loop", !.body = Append(f.body, Print_(val))]>>, toks)
       [] f.fn = "parse_block" /\ f.at = "statement" ->
            \* lines 135, 138
            go(<<[f EXCEPT !.at = "loop", !.body = Append(f.body, val)]>>, toks)
       [] f.fn = "parse_if" /\ f.at = "test" ->
            \* lines 154-155
            go(<<[f EXCEPT !.at = "consequent", !.test = val], BlockFrame>>, toks)
       [] f.fn = "parse_if" /\ f.at = "consequent" ->
            \* lines 159-166
            IF Continuation(toks) = "elif"
            THEN go(<<[f EXCEPT !.at = "alternate_if", !.consequent = val],
                      IfFrame, ExpressionFrame>>, Tail(toks))
            ELSE IF Continuation(toks) = "else"
            THEN go(<<[f EXCEPT !.at = "alternate_block", !.consequent = val],
                      BlockFrame>>, Tail(toks))
            ELSE Return(below, toks, If(f.test, val, Null))
       [] f.fn = "parse_if" /\ f.at = "alternate_if" ->
            \* lines 161, 166
            Return(below, toks, If(f.test, f.consequent, val))
       [] f.fn = "parse_if" /\ f.at = "alternate_block" ->
            \* lines 164, 166
            Return(below, toks, If(f.test, f.consequent, Block(val)))
       [] f.fn = "parse_repeat" /\ f.at = "count" ->
            \* lines 174-177
            go(<<[f EXCEPT !.at = "body", !.count = val], BlockFrame>>, toks)
       [] f.fn = "parse_repeat" /\ f.at = "body" ->
            \* lines 177-178
            Return(below, toks, Repeat(f.count, val))

InParser == stage = "parser" /\ stack # <<>>

InExpression == InParser /\ Top.fn = "parse_expression"

InBlock == InParser /\ Top.fn = "parse_block" /\ Top.at = "loop"

ParserKeeps == UNCHANGED <<input, cursor, scanned, code, given>>

\* the callee's return takes effect: parser goes on, or compiler calls codeGenerator
Resume(r) ==
  /\ stack' = r.stack
  /\ tokens' = r.tokens
  /\ ast' = r.ast
  /\ stage' = IF r.stack = <<>> THEN "codeGenerator" ELSE "parser"
  /\ UNCHANGED result

\* an uncaught exception unwinds parser and compiler
Raise(e, rest) ==
  /\ result' = e
  /\ stage' = "done"
  /\ stack' = <<>>
  /\ tokens' = rest
  /\ UNCHANGED ast

ExpressionStep_NoPop ==
  /\ InExpression
  /\ tokens # <<>> /\ tokens[1].type \notin {"keyword"}
  /\ stack' = Callers \o <<[Top EXCEPT !.expression = @ \o Piece(tokens[1])]>>
  /\ tokens' = tokens
  /\ UNCHANGED <<stage, ast, result, dropped, eofInBlock>>
  /\ ParserKeeps

\* lines 99-104: one iteration of the loop of parse_expression
ExpressionStep ==
  /\ InExpression
  /\ tokens # <<>> /\ tokens[1].type \notin {"keyword"}
  /\ stack' = Callers \o <<[Top EXCEPT !.expression = @ \o Piece(tokens[1])]>>
  /\ tokens' = Tail(tokens)
  /\ UNCHANGED <<stage, ast, result, dropped, eofInBlock>>
  /\ ParserKeeps

\* lines 99 and 106: the loop ends and the expression is returned
ExpressionReturn ==
  /\ InExpression
  /\ ~(tokens # <<>> /\ tokens[1].type \notin {"keyword"})
  /\ Resume(Return(Callers, tokens, Strip(Top.expression)))
  /\ UNCHANGED <<dropped, eofInBlock>>
  /\ ParserKeeps

\* lines 110 and 140: no token is left, the block returns what it has
BlockExhausted ==
  /\ InBlock
  /\ tokens = <<>>
  /\ Resume(Return(Callers, tokens, Top.body))
  /\ eofInBlock' = (eofInBlock \/ stack[Len(stack) - 1].fn \in {"parse_if", "parse_repeat"})
  /\ UNCHANGED dropped
  /\ ParserKeeps

\* lines 111-113 and 140
BlockEnd ==
  /\ InBlock
  /\ tokens # <<>> /\ tokens[1].value = StrV(<<"e", "n", "d">>)
  /\ Resume(Return(Callers, Tail(tokens), Top.body))
  /\ UNCHANGED <<dropped, eofInBlock>>
  /\ ParserKeeps

\* line 114: the token popped by this iteration
Popped == tokens[1]

AtStatement == InBlock /\ tokens # <<>> /\ tokens[1].value # StrV(<<"e", "n", "d">>)

\* lines 116-126
BlockLet ==
  /\ AtStatement
  /\ Popped.type = "keyword" /\ Popped.value = StrV(<<"l", "e", "t">>)
  /\ LET afterLet == Tail(tokens)
         afterName == Tail(afterLet)
     IN IF afterLet = <<>>
        THEN \* line 119: pop from an empty list
             Raise(IndexError, afterLet)
        ELSE IF afterName = <<>>
        THEN \* line 123: tokens[0] of an empty list
             Raise(IndexError, afterName)
        ELSE IF afterName[1].type = "operator" /\ afterName[1].value = StrV(<<"=">>)
        THEN /\ stack' = Callers \o <<[Top EXCEPT !.at = "let", !.name = afterLet[1].value],
                                      ExpressionFrame>>
             /\ tokens' = Tail(afterName)
             /\ UNCHANGED <<stage, ast, result>>
        ELSE /\ stack' = Callers \o
                   <<[Top EXCEPT !.body = Append(@, Declaration(afterLet[1].value, NoneV))]>>
             /\ tokens' = afterName
             /\ UNCHANGED <<stage, ast, result>>
  /\ UNCHANGED <<dropped, eofInBlock>>
  /\ ParserKeeps

\* lines 128-132
BlockWrite ==
  /\ AtStatement
  /\ Popped.type = "keyword" /\ Popped.value = StrV(<<"w", "r", "i", "t", "e">>)
  /\ stack' = Callers \o <<[Top EXCEPT !.at = "write"], ExpressionFrame>>
  /\ tokens' = Tail(tokens)
  /\ UNCHANGED <<stage, ast, result, dropped, eofInBlock>>
  /\ ParserKeeps

\* lines 134-135 and 152-154
BlockIf ==
  /\ AtStatement
  /\ Popped.type = "keyword" /\ Popped.value = StrV(<<"i", "f">>)
  /\ stack' = Callers \o <<[Top EXCEPT !.at = "statement"], IfFrame, ExpressionFrame>>
  /\ tokens' = Tail(tokens)
  /\ UNCHANGED <<stage, ast, result, dropped, eofInBlock>>
  /\ ParserKeeps

\* lines 137-138 and 172-174
BlockRepeat ==
  /\ AtStatement
  /\ Popped.type = "keyword" /\ Popped.value = StrV(<<"r", "e", "p", "e", "a", "t">>)
  /\ stack' = Callers \o <<[Top EXCEPT !.at = "statement"], RepeatFrame, ExpressionFrame>>
  /\ tokens' = Tail(tokens)
  /\ UNCHANGED <<stage, ast, result, dropped, eofInBlock>>
  /\ ParserKeeps

IsStatementKeyword(token) ==
  /\ token.type = "keyword"
  /\ token.value \in {StrV(<<"l", "e", "t">>), StrV(<<"w", "r", "i", "t", "e">>),
                      StrV(<<"i", "f">>), StrV(<<"r", "e", "p", "e", "a", "t">>)}

\* lines 114-139 when no branch matches: the popped token is forgotten
BlockOther ==
  /\ AtStatement
  /\ ~IsStatementKeyword(Popped)
  /\ tokens' = Tail(tokens)
  /\ dropped' = Append(dropped, Popped)
  /\ UNCHANGED <<stage, stack, ast, result, eofInBlock>>
  /\ ParserKeeps

(***************************************************************************)
(* codeGenerator                                                           *)
(***************************************************************************)
RECURSIVE Indent(_)
\* '    ' * indent_level
Indent(level) == IF level = 0 THEN <<>> ELSE <<" ", " ", " ", " ">> \o Indent(level - 1)

\* line 219: f"\n{indent}el{codeGenerator(node['alternate'], indent_level)}"
ElifHeader(indent, generated) == <<"\n">> \o indent \o <<"e", "l">> \o generated

RECURSIVE codeGenerator(_, _)
RECURSIVE JoinGenerated(_, _)
\* '\n'.join(codeGenerator(n, indent_level) for n in body)
JoinGenerated(body, level) ==
  IF body = <<>> THEN <<>>
  ELSE IF Len(body) = 1 THEN codeGenerator(body[1], level)
  ELSE codeGenerator(body[1], level) \o <<"\n">> \o JoinGenerated(Tail(body), level)

codeGenerator(node, level) ==
  LET indent == Indent(level)
      end == <<"\n">> \o indent \o <<"#", " ", "e", "n", "d">>
  IN CASE node.type = "Program" -> JoinGenerated(node.body, level)
       [] node.type = "Declaration" ->
            indent \o PyStr(node.name) \o <<" ", "=", " ">> \o PyStr(node.value)
       [] node.type = "Print" ->
            indent \o <<"p", "r", "i", "n", "t", "(">> \o node.expression \o <<")">>
       [] node.type = "If" ->
            indent \o <<"i", "f", " ">> \o node.test \o <<":", "\n">>
              \o codeGenerator(Block(node.consequent), level + 1)
              \o end
              \o (IF node.alternate = Null THEN <<>>
                  ELSE IF node.alternate.type = "If"
                  THEN ElifHeader(indent, codeGenerator(node.alternate, level))
                  ELSE <<"\n">> \o indent \o <<"e", "l", "s", "e", ":", "\n">>
                         \o codeGenerator(node.alternate, level + 1)
                         \o end)
       [] node.type = "Block" -> JoinGenerated(node.body, level)
       [] node.type = "Repeat" ->
            indent \o <<"f", "o", "r", " ", "_", " ", "i", "n", " ",
                        "r", "a", "n", "g", "e", "(", "i", "n", "t", "(">>
              \o node.count \o <<")", ")", ":", "\n">>
              \o codeGenerator(Block(node.body), level + 1)
              \o end

\* lines 249-250: compiler returns the generated text
Generate ==
  /\ stage = "codeGenerator"
  /\ code' = codeGenerator(ast, 0)
  /\ result' = Returned
  /\ stage' = "done"
  /\ UNCHANGED <<input, cursor, scanned, tokens, stack, ast, dropped, eofInBlock, given>>

(***************************************************************************)
(* Token lists handed to parser                                            *)
(***************************************************************************)
ExpressionChoices == {<<NUM_1>>, <<IDENT_x>>}

BodyChoices == {<<>>, <<WRITE_, NUM_1>>}

EndChoices == {<<>>, <<END_>>}

\* if e1 b1 [end] elif e2 b2 [end] else b3 end
Chain(e1, b1, t1, e2, b2, t2, b3) ==
  <<IF_>> \o e1 \o b1 \o t1 \o <<ELIF_>> \o e2 \o b2 \o t2 \o <<ELSE_>> \o b3 \o <<END_>>

Chains ==
  {Chain(e1, b1, t1, e2, b2, t2, b3) :
     e1 \in ExpressionChoices, b1 \in BodyChoices, t1 \in EndChoices,
     e2 \in ExpressionChoices, b2 \in BodyChoices, t2 \in EndChoices, b3 \in BodyChoices}

\* the same chains as the body of a repeat loop
NestedChains == {<<REPEAT_, NUM_1>> \o c \o <<END_>> : c \in Chains}

\* one if or repeat block, closed by its end or not
SingleBlocks ==
  {<<k>> \o e \o b \o t :
     k \in {IF_, REPEAT_}, e \in ExpressionChoices, b \in BodyChoices, t \in EndChoices}

TokenLists == SeqsUpTo(TokenAlphabet, MaxTokens) \cup SingleBlocks \cup Chains \cup NestedChains

(***************************************************************************)
(* Specification                                                           *)
(***************************************************************************)
\* compiler(input): lines 247-250
InitCompiler ==
  /\ stage = "lexer"
  /\ input \in SourceTexts
  /\ tokens = <<>>
  /\ given = <<>>
  /\ stack = <<>>

\* parser(tokens) called on a token list: lines 77-185
InitParser ==
  /\ stage = "parser"
  /\ input = <<>>
  /\ tokens \in TokenLists
  /\ given = tokens
  /\ stack = <<ParserFrame, BlockFrame>>

Init ==
  /\ InitCompiler \/ InitParser
  /\ cursor = 0
  /\ scanned = <<>>
  /\ ast = NoAst
  /\ code = <<>>
  /\ result = Running
  /\ dropped = <<>>
  /\ eofInBlock = FALSE

Next ==
  \/ LexWhitespace
  \/ LexWord
  \/ LexNumber
  \/ LexString
  \/ LexOperator
  \/ LexInvalid
  \/ LexReturn
  \/ ExpressionStep
  \/ ExpressionReturn
  \/ BlockExhausted
  \/ BlockEnd
  \/ BlockLet
  \/ BlockWrite
  \/ BlockIf
  \/ BlockRepeat
  \/ BlockOther
  \/ Generate

Spec == Init /\ [][Next]_vars

\* Every step is a step of the one running call: nothing else is scheduled
\* and nothing blocks, so an enabled step is taken.
LiveSpec == Spec /\ WF_vars(Next)

(***************************************************************************)
(* Properties                                                              *)
(***************************************************************************)
RECURSIVE Lines(_)
\* the lines of a text, split at every newline
Lines(text) ==
  IF \A i \in DOMAIN text : text[i] # "\n" THEN <<text>>
  ELSE LET k == CHOOSE i \in DOMAIN text :
                  text[i] = "\n" /\ \A j \in 1..(i - 1) : text[j] # "\n"
       IN <<SubSeq(text, 1, k - 1)>> \o Lines(SubSeq(text, k + 1, Len(text)))

RECURSIVE LeadingSpaces(_)
LeadingSpaces(line) ==
  IF line # <<>> /\ line[1] = " " THEN 1 + LeadingSpaces(Tail(line)) ELSE 0

ParserReturned == ast # NoAst

\* the expression text and the statements the grammar gives the pieces of a chain
ExpressionText(e) == IF e = <<NUM_1>> THEN <<"1">> ELSE <<"x">>

Statements(b) == IF b = <<>> THEN <<>> ELSE <<Print_(<<"1">>)>>

ParseErrorEndOfInput == [kind |-> "ParseError", what |-> "UnexpectedEndOfInput"]

UnterminatedStringError == [kind |-> "UnterminatedStringError"]

C2_BlockBalance ==
  /\ (stage = "done" /\ eofInBlock) => (result = ParseErrorEndOfInput /\ ~ParserReturned)
  /\ (stage = "done" /\ given = <<IF_, NUM_1, WRITE_, NUM_1, END_>>) => ParserReturned

\* C3: parse returns a Program or fails with a ParseError; running out of
\* tokens is never an out-of-range access on the token list.
C3_NoOutOfRangeAccess ==
  (stage = "done" /\ result.kind # "ValueError")
  => (ParserReturned \/ result = ParseErrorEndOfInput)

QuotesBefore(s, p) == Cardinality({i \in 1..p : s[i] = "\""})

Legal(c) == IsSpace(c) \/ IsAlpha(c) \/ IsDigit(c) \/ c = "\"" \/ c \in {"+", "-", "*", "/", "=", "<", ">", "&", "|"}

\* 0-based offsets of the characters outside string literals that are not legal
InvalidOffsets(s) == {p \in 0..(Len(s) - 1) : ~Legal(s[p + 1]) /\ QuotesBefore(s, p) % 2 = 0}

FirstInvalid(s) == CHOOSE p \in InvalidOffsets(s) : \A q \in InvalidOffsets(s) : p <= q

\* a quote opens a string literal that the end of the input cuts short
Unterminated(s) == InvalidOffsets(s) = {} /\ QuotesBefore(s, Len(s)) % 2 = 1

\* C4: an unterminated string literal makes tokenize fail; no token list
\* holding the truncated string is returned.
C4_UnterminatedString ==
  (stage # "lexer" /\ Unterminated(input))
  => (result = UnterminatedStringError /\ given = <<>> /\ stage = "done")

\* C5: when the scan reaches an illegal character outside a string literal,
\* tokenize fails with an error carrying that character and its 0-based
\* offset, and returns no tokens, so nothing is parsed or generated.
C5_InvalidCharacter ==
  (stage # "lexer" /\ InvalidOffsets(input) # {})
  => /\ result = [kind |-> "ValueError", char |-> input[FirstInvalid(input) + 1],
                  pos |-> FirstInvalid(input)]
     /\ stage = "done"
     /\ tokens = <<>> /\ given = <<>> /\ ast = NoAst /\ code = <<>>

C5_Witness ==
  /\ stage = "done"
  /\ input = LetWithStrayCharacter
  /\ result = [kind |-> "ValueError", char |-> "@", pos |-> Len(input) - 1]
  /\ Len(scanned) > 1

HasSpace(v) == v.py = "str" /\ \E i \in DOMAIN v.s : IsSpace(v.s[i])

LexerReturned == stage # "lexer" /\ input # <<>> /\ result.kind # "ValueError"

\* C6 as stated: no token of any kind, String included, has a value that is
\* or contains whitespace.
C6_NoWhitespaceInAnyToken ==
  LexerReturned => \A i \in DOMAIN scanned : ~HasSpace(scanned[i].value)

\* C6 amended: no Keyword, Identifier, Number or Operator token has a value
\* that is or contains whitespace; a String token holds the characters
\* between its quotes as they are, whitespace included.
C6_NoWhitespaceOutsideStrings ==
  LexerReturned =>
    \A i \in DOMAIN scanned : scanned[i].type # "string" => ~HasSpace(scanned[i].value)

C6_Witness ==
  /\ LexerReturned
  /\ \E i \in DOMAIN scanned : scanned[i].type = "string" /\ HasSpace(scanned[i].value)
  /\ \E i \in DOMAIN scanned : scanned[i].type # "string"
  /\ \E i \in DOMAIN input : IsSpace(input[i]) /\ QuotesBefore(input, i) % 2 = 0

RECURSIVE GeneratedIfs(_, _)
\* the If nodes codeGenerator is called on below node, each with its indent_level
GeneratedIfs(node, level) ==
  LET each(body, l) == UNION {GeneratedIfs(body[i], l) : i \in DOMAIN body}
  IN CASE node.type \in {"Program", "Block"} -> each(node.body, level)
       [] node.type = "Repeat" -> each(node.body, level + 1)
       [] node.type = "If" ->
            {[node |-> node, level |-> level]} \cup each(node.consequent, level + 1)
              \cup (IF node.alternate = Null THEN {}
                    ELSE IF node.alternate.type = "If" THEN GeneratedIfs(node.alternate, level)
                    ELSE GeneratedIfs(node.alternate, level + 1))
       [] OTHER -> {}

\* the line of the text of an If node on which its alternate begins
AlternateLine(node, level) ==
  Lines(codeGenerator(node, level))[Len(Lines(codeGenerator(Block(node.consequent), level + 1))) + 3]

\* C7: an If whose alternate is an If, generated at depth d, gives the
\* alternate the header line: d indent units, then elif <test>:
C7_ElifHeaderLine ==
  (stage = "done" /\ ParserReturned)
  => \A g \in GeneratedIfs(ast, 0) :
       (g.node.alternate # Null /\ g.node.alternate.type = "If")
       => AlternateLine(g.node, g.level)
            = Indent(g.level) \o <<"e", "l", "i", "f", " ">> \o g.node.alternate.test \o <<":">>

IsHeader(line) == line # <<>> /\ line[Len(line)] = ":"

IsStatementAt(line, spaces) ==
  /\ LeadingSpaces(line) = spaces
  /\ Len(line) > spaces
  /\ line[spaces + 1] # "#"

\* C8: in the text generated for an accepted program every block header
\* line (if, elif, else, for) is followed by a statement line indented one
\* level deeper, also when the block is empty.
C8_HeaderHasBody ==
  (stage = "done" /\ ParserReturned)
  => LET lines == Lines(code)
     IN \A i \in DOMAIN lines :
          IsHeader(lines[i])
          => /\ i < Len(lines)
             /\ IsStatementAt(lines[i + 1], LeadingSpaces(lines[i]) + Len(Indent(1)))

\* C9: when parse returns a Program the token list is used up and no token
\* was popped and forgotten.
C9_EveryTokenAccounted ==
  ParserReturned => (tokens = <<>> /\ dropped = <<>>)

\* work the activation records still owe without a token to pay for it
Owed(f) ==
  CASE f.fn \in {"parse_expression", "parse_block"} -> 1
    [] f.fn = "parse_if" -> IF f.at = "test" THEN 1 ELSE 0
    [] f.fn = "parse_repeat" -> IF f.at = "count" THEN 1 ELSE 0
    [] OTHER -> 0

RECURSIVE OwedBy(_)
OwedBy(frames) == IF frames = <<>> THEN 0 ELSE Owed(frames[1]) + OwedBy(Tail(frames))

Measure == 3 * Len(tokens) + OwedBy(stack)

\* C10: each iteration of the lexer's scan loop moves the cursor forward or
\* raises, each iteration of the parser's loops removes a token or ends its
\* loop (the measure falls), and the pipeline ends with a result or an error.
C10_Terminates ==
  /\ [][/\ (stage = "lexer" /\ stage' = "lexer") => cursor' > cursor
        /\ stage = "parser" => Measure' < Measure]_vars
  /\ <>(stage = "done")

C10_Witness ==
  /\ stage = "done"
  /\ result = Returned
  /\ Len(given) > MaxTokens
  /\ \E g \in GeneratedIfs(ast, 0) : g.level > 0 /\ g.node.alternate # Null

====
